---- MODULE Spec2Model ----
(***************************************************************************)
(* Model of the Orbit portfolio search engine:                             *)
(*   search_engine/indexer.py  PortfolioIndexer (scan, tree, records,      *)
(*                             calculate_priority, search)                 *)
(*   search_engine/server.py   load_index and the /api/search handler      *)
(*                                                                         *)
(* Python strings are modelled as sequences of one-character strings, so   *)
(* that lower(), split(), strip(), substring tests, str.count and the      *)
(* path/suffix arithmetic are computed character by character.             *)
(***************************************************************************)
EXTENDS Integers, Sequences, FiniteSets, TLC

\* ------------------------------------------------------------------------
\* Bounds of the model
\* ------------------------------------------------------------------------

\* How many times build_index may be called on one PortfolioIndexer.
MaxBuilds == 2

\* Number of generated files of the large directory (more than the result cap).
BulkFiles == 51

\* Repetitions of the ten characters "ssh notes " in the long document (more
\* than the 500-character excerpt holds).
LongReps == 51

\* ------------------------------------------------------------------------
\* Program constants
\* ------------------------------------------------------------------------

\* content[:500]
ExcerptCap == 500

\* results[:50]
MaxResults == 50

\* ------------------------------------------------------------------------
\* Characters and Python string operations
\* ------------------------------------------------------------------------

UpperCs == << "A","B","C","D","E","F","G","H","I","J","K","L","M",
              "N","O","P","Q","R","S","T","U","V","W","X","Y","Z" >>

LowerCs == << "a","b","c","d","e","f","g","h","i","j","k","l","m",
              "n","o","p","q","r","s","t","u","v","w","x","y","z" >>

Digits == << "0","1","2","3","4","5","6","7","8","9" >>

\* The inline-code delimiter of markdown (code point 96), which the TLA+ lexer
\* does not accept inside a string literal; it is one character of the model.
BackTick == "BACKTICK"

\* The characters of the model in code-point order (what str comparison uses).
Ascii == << "\t", "\n", " ", "#", "-", ".", "/" >> \o Digits \o UpperCs
            \o << "_", BackTick >> \o LowerCs

CodeOf == [c \in { Ascii[i] : i \in 1..Len(Ascii) } |->
              CHOOSE i \in 1..Len(Ascii) : Ascii[i] = c]

Code(c) == CodeOf[c]

\* str.isspace for the characters of the model
IsSpace(c) == c \in {" ", "\t", "\n"}

UpperSet == { UpperCs[i] : i \in 1..Len(UpperCs) }

\* the lower-case letter of each upper-case letter
LowerOf == [c \in UpperSet |-> LowerCs[CHOOSE i \in 1..Len(UpperCs) : UpperCs[i] = c]]

LowerChar(c) == IF c \in UpperSet THEN LowerOf[c] ELSE c

\* str.lower()
Lower(s) == [i \in 1..Len(s) |-> LowerChar(s[i])]

\* s[i:]  (0-based i, as in Python)
From(s, i) == SubSeq(s, i + 1, Len(s))

\* s[:i]
Upto(s, i) == SubSeq(s, 1, IF i < Len(s) THEN i ELSE Len(s))

\* str.startswith
StartsWith(s, p) == Len(p) <= Len(s) /\ SubSeq(s, 1, Len(p)) = p

\* the string test  t in s
IsSubstring(t, s) ==
    \E i \in 0..(Len(s) - Len(t)) : SubSeq(s, i + 1, i + Len(t)) = t

\* the 1-based positions at which t occurs in s
Occurrences(s, t) ==
    { j \in 1..(Len(s) - Len(t) + 1) : SubSeq(s, j, j + Len(t) - 1) = t }

RECURSIVE CountFrom(_, _, _)
\* occurrences counted from position i on, each starting where the previous
\* one ended or later; occ is the set of positions where the string occurs
CountFrom(occ, len, i) ==
    LET later == { j \in occ : j >= i }
    IN  IF later = {} THEN 0
        ELSE LET j == CHOOSE x \in later : \A y \in later : x <= y
             IN  1 + CountFrom(later, len, j + len)

\* str.count(t): non-overlapping occurrences; len(s)+1 for the empty string
Count(s, t) ==
    IF t = << >> THEN Len(s) + 1 ELSE CountFrom(Occurrences(s, t), Len(t), 1)

\* str.rfind(c) as a 1-based position, 0 when absent
RFind(s, c) ==
    IF \E i \in 1..Len(s) : s[i] = c
    THEN CHOOSE i \in 1..Len(s) : s[i] = c /\ \A j \in (i+1)..Len(s) : s[j] # c
    ELSE 0

\* str.find(c) at or after 1-based position i, 0 when absent
FindFrom(s, c, i) ==
    IF \E j \in i..Len(s) : s[j] = c
    THEN CHOOSE j \in i..Len(s) : s[j] = c /\ \A k \in i..(j-1) : s[k] # c
    ELSE 0

RECURSIVE LStrip(_)
LStrip(s) == IF s # << >> /\ IsSpace(Head(s)) THEN LStrip(Tail(s)) ELSE s

RECURSIVE RStrip(_)
RStrip(s) ==
    IF s # << >> /\ IsSpace(s[Len(s)]) THEN RStrip(SubSeq(s, 1, Len(s) - 1)) ELSE s

\* str.strip()
Strip(s) == RStrip(LStrip(s))

RECURSIVE SplitOn(_, _)
\* str.split(sep) for a one-character separator: empty pieces are kept
SplitOn(s, sep) ==
    LET k == FindFrom(s, sep, 1)
    IN  IF k = 0 THEN << s >>
        ELSE << SubSeq(s, 1, k - 1) >> \o SplitOn(From(s, k), sep)

RECURSIVE SplitWs(_)
\* str.split(): runs of whitespace separate, no empty pieces
SplitWs(s) ==
    LET t == LStrip(s)
        k == IF \E j \in 1..Len(t) : IsSpace(t[j])
             THEN CHOOSE j \in 1..Len(t) :
                      IsSpace(t[j]) /\ \A i \in 1..(j-1) : ~IsSpace(t[i])
             ELSE 0
    IN  IF t = << >> THEN << >>
        ELSE IF k = 0 THEN << t >>
        ELSE << SubSeq(t, 1, k - 1) >> \o SplitWs(From(t, k))

RECURSIVE Join(_, _)
\* sep.join(parts)
Join(parts, sep) ==
    IF parts = << >> THEN << >>
    ELSE IF Len(parts) = 1 THEN parts[1]
    ELSE parts[1] \o sep \o Join(Tail(parts), sep)

\* s * n
Repeat(s, n) == [i \in 1..(n * Len(s)) |-> s[((i - 1) % Len(s)) + 1]]

\* string comparison a < b by code points
StrLess(a, b) ==
    \/ Len(a) < Len(b) /\ SubSeq(b, 1, Len(a)) = a
    \/ \E i \in 1..(IF Len(a) < Len(b) THEN Len(a) ELSE Len(b)) :
          /\ SubSeq(a, 1, i - 1) = SubSeq(b, 1, i - 1)
          /\ Code(a[i]) < Code(b[i])

\* os.sep
Sep == << "/" >>

\* ------------------------------------------------------------------------
\* pathlib / os.path name arithmetic
\* ------------------------------------------------------------------------

\* PurePath.suffix: the last dot of the name, unless it leads or ends the name
Suffix(name) ==
    LET i == RFind(name, ".")
    IN  IF 1 < i /\ i < Len(name) THEN From(name, i - 1) ELSE << >>

\* PurePath.stem
Stem(name) ==
    LET i == RFind(name, ".")
    IN  IF 1 < i /\ i < Len(name) THEN Upto(name, i - 1) ELSE name

\* os.path.splitext(name)[0]: cut at the last dot unless only dots precede it
SplitextRoot(name) ==
    LET d == RFind(name, ".")
    IN  IF d > 0 /\ \E j \in 1..(d - 1) : name[j] # "."
        THEN Upto(name, d - 1)
        ELSE name

\* ------------------------------------------------------------------------
\* The file system the indexer scans
\*
\* A node is [rel, kind, text, ok]: rel is the path below the index root as a
\* sequence of names, kind is "dir" or "file", text is a file's content, and
\* ok tells whether open() (a file) or listing (a directory) succeeds.
\* ------------------------------------------------------------------------

Dir(rel)        == [rel |-> rel, kind |-> "dir",  text |-> << >>, ok |-> TRUE]
File(rel, text) == [rel |-> rel, kind |-> "file", text |-> text,  ok |-> TRUE]
Unreadable(n)   == [n EXCEPT !.ok = FALSE]

NodeName(n) == n.rel[Len(n.rel)]

\* the entries of directory rel
Entries(tree, rel) ==
    { n \in tree : Len(n.rel) = Len(rel) + 1 /\ SubSeq(n.rel, 1, Len(rel)) = rel }

\* sorted(): a set of sibling nodes in ascending order of name (the names of
\* the entries of one directory are distinct)
SortedNodes(S) ==
    [ i \in 1..Cardinality(S) |->
        CHOOSE x \in S :
            Cardinality({ y \in S : StrLess(NodeName(y), NodeName(x)) }) = i - 1 ]

RECURSIVE Perms(_)
\* every enumeration of the set S
Perms(S) ==
    IF S = {} THEN { << >> }
    ELSE UNION { { << x >> \o p : p \in Perms(S \ {x}) } : x \in S }

RECURSIVE Concats(_)
\* every concatenation of one sequence out of each set of a sequence of sets
Concats(sets) ==
    IF sets = << >> THEN { << >> }
    ELSE { h \o t : h \in Head(sets), t \in Concats(Tail(sets)) }

\* ------------------------------------------------------------------------
\* PortfolioIndexer.extract_metadata
\* ------------------------------------------------------------------------

RECURSIVE DropHashes(_)
\* the ^#+ of re.sub(r'^#+\s*', '', line)
DropHashes(s) == IF s # << >> /\ Head(s) = "#" THEN DropHashes(Tail(s)) ELSE s

RECURSIVE FindAllCode(_, _)
\* re.findall of a delimiter, one or more non-delimiters, a delimiter, from
\* 1-based position i: matches do not overlap, and an empty pair matches nothing
FindAllCode(line, i) ==
    LET p == FindFrom(line, BackTick, i)
        q == IF p = 0 THEN 0 ELSE FindFrom(line, BackTick, p + 1)
    IN  IF p = 0 \/ q = 0 THEN {}
        ELSE IF q = p + 1 THEN FindAllCode(line, p + 1)
        ELSE { SubSeq(line, p + 1, q - 1) } \cup FindAllCode(line, q + 1)

\* the body of the loop over lines
ExtractLine(md, line) ==
    LET t == IF StartsWith(line, << "#", " " >>) /\ md.title = << >>
             THEN Strip(From(line, 2)) ELSE md.title
        h == IF StartsWith(line, << "#" >>)
             THEN Append(md.headers, Strip(LStrip(DropHashes(line))))
             ELSE md.headers
        k == IF \E j \in 1..Len(line) : line[j] = BackTick
             THEN md.keywords \cup FindAllCode(line, 1)
             ELSE md.keywords
    IN  [title |-> t, headers |-> h, keywords |-> k]

RECURSIVE ExtractLines(_, _)
ExtractLines(md, lines) ==
    IF lines = << >> THEN md
    ELSE ExtractLines(ExtractLine(md, Head(lines)), Tail(lines))

extract_metadata(content) ==
    ExtractLines([title |-> << >>, headers |-> << >>, keywords |-> {}],
                 SplitOn(content, "\n"))

\* ------------------------------------------------------------------------
\* PortfolioIndexer.should_index
\* ------------------------------------------------------------------------

exclude_dirs ==
    { << "n","o","d","e","_","m","o","d","u","l","e","s" >>,
      << "v","e","n","v" >>,
      << "_","_","p","y","c","a","c","h","e","_","_" >>,
      << ".","g","i","t" >> }

exclude_extensions ==
    { << ".","p","y","c" >>, << ".","p","y","o" >>, << ".","s","o" >>,
      << ".","d","y","l","i","b" >>, << ".","d","l","l" >>, << ".","e","x","e" >>,
      << ".","b","i","n" >>, << ".","j","p","g" >>, << ".","j","p","e","g" >>,
      << ".","p","n","g" >>, << ".","g","i","f" >>, << ".","b","m","p" >>,
      << ".","i","c","o" >>, << ".","s","v","g" >>, << ".","m","p","4" >>,
      << ".","a","v","i" >>, << ".","m","o","v" >>, << ".","m","p","3" >>,
      << ".","w","a","v" >>, << ".","z","i","p" >>, << ".","t","a","r" >>,
      << ".","g","z" >> }

\* root is the parts of self.root_path; the path tested is root joined with
\* the node's path below it, as rglob and iterdir hand it over
should_index(root, n) ==
    LET parts == root \o n.rel
    IN  IF \E i \in 1..Len(parts) : StartsWith(parts[i], << "." >>) THEN FALSE
        ELSE IF \E i \in 1..Len(parts) : parts[i] \in exclude_dirs THEN FALSE
        ELSE IF Lower(Suffix(NodeName(n))) \in exclude_extensions THEN FALSE
        ELSE n.kind = "file"

\* ------------------------------------------------------------------------
\* PortfolioIndexer.build_tree_structure
\* ------------------------------------------------------------------------

\* str(current_path.relative_to(base_path))
RelStr(rel) == IF rel = << >> THEN << "." >> ELSE Join(rel, Sep)

tree_exclude ==
    { << "n","o","d","e","_","m","o","d","u","l","e","s" >>,
      << "v","e","n","v" >>,
      << "_","_","p","y","c","a","c","h","e","_","_" >> }

\* SkipItem without the test for a leading dot
SkipItemNamedOnly(item) == NodeName(item) \in tree_exclude

\* "Skip hidden and excluded items"
SkipItem(item) ==
    StartsWith(NodeName(item), << "." >>) \/ NodeName(item) \in tree_exclude

RECURSIVE build_tree_structure(_, _, _)

\* the items of the loop over sorted(current_path.iterdir()) that get a child
TreeItems(root, items) ==
    SelectSeq(items, LAMBDA item :
        /\ ~SkipItem(item)
        /\ (item.kind = "dir" \/ should_index(root, item)))

\* cur is the node of current_path; the root itself is Dir(<< >>)
build_tree_structure(root, tree, cur) ==
    LET items == IF cur.kind = "dir" /\ cur.ok
                 THEN TreeItems(root, SortedNodes(Entries(tree, cur.rel)))
                 ELSE << >>
    IN  [ name     |-> IF cur.rel = << >> THEN root[Len(root)] ELSE NodeName(cur),
          path     |-> RelStr(cur.rel),
          type     |-> IF cur.kind = "dir" THEN "directory" ELSE "file",
          children |-> [ i \in 1..Len(items) |->
                           build_tree_structure(root, tree, items[i]) ] ]

\* ------------------------------------------------------------------------
\* PortfolioIndexer.index_file
\* ------------------------------------------------------------------------

GithubPrefix ==
    << "h","t","t","p","s",":","/","/","g","i","t","h","u","b",".","c","o","m","/",
       "f","t","T","o","w","e","r","/",
       "C","y","b","e","r","S","e","c","u","r","i","t","y","-",
       "P","o","r","t","f","o","l","i","o","/","b","l","o","b","/","m","a","i","n","/" >>

\* str(file_path) for an absolute root: the first part is the root "/"
FullPathStr(root, rel) ==
    IF root[1] = Sep THEN Sep \o Join(Tail(root) \o rel, Sep)
    ELSE Join(root \o rel, Sep)

\* The record of a file; the result is the empty sequence where the code
\* returns None (open() failed) and a one-element sequence otherwise.
index_file(root, n) ==
    IF ~n.ok THEN << >>
    ELSE LET name == NodeName(n)
             md   == IF Lower(Suffix(name)) = << ".","m","d" >>
                     THEN extract_metadata(n.text)
                     ELSE [title |-> Stem(name), headers |-> << >>, keywords |-> {}]
         IN  << [ name       |-> name,
                  path       |-> RelStr(n.rel),
                  full_path  |-> FullPathStr(root, n.rel),
                  title      |-> IF md.title # << >> THEN md.title ELSE Stem(name),
                  headers    |-> md.headers,
                  keywords   |-> md.keywords,
                  content    |-> Upto(n.text, ExcerptCap),
                  size       |-> Len(n.text),
                  type       |-> IF Lower(Suffix(name)) # << >>
                                 THEN Lower(Suffix(name)) ELSE << "f","i","l","e" >>,
                  github_url |-> GithubPrefix \o RelStr(n.rel) ] >>

\* ------------------------------------------------------------------------
\* PortfolioIndexer.build_index
\* ------------------------------------------------------------------------

\* the paths of a scan for which build_index calls index_file
Eligible(root, n) == n.kind = "file" /\ should_index(root, n)

RECURSIVE Rglob(_, _, _)
\* self.root_path.rglob('*') below directory cur, as far as build_index uses
\* it: every sequence in which the scan can come upon the eligible files.
\* rglob yields the entries of cur in the order os.scandir lists them, then
\* does the same for each subdirectory of cur, in that order too. No rule
\* fixes the order of a listing and the code does not sort, so the eligible
\* files of cur come in any order, followed by the files below the
\* subdirectories of cur, taken in any order. A directory that cannot be
\* listed yields nothing.
Rglob(root, tree, cur) ==
    IF ~cur.ok THEN { << >> }
    ELSE LET here  == { n \in Entries(tree, cur.rel) : Eligible(root, n) }
             dirs  == { n \in Entries(tree, cur.rel) : n.kind = "dir" }
             below == [ d \in dirs |-> Rglob(root, tree, d) ]
         IN  { fs \o rest :
                   fs \in Perms(here),
                   rest \in UNION { Concats([ i \in 1..Len(ds) |-> below[ds[i]] ]) :
                                       ds \in Perms(dirs) } }

\* the loop of build_index over the eligible files of a scan: the records it
\* appends, those of the files for which index_file returned a record
ScanRecords(root, items) ==
    LET got == SelectSeq([ i \in 1..Len(items) |-> index_file(root, items[i]) ],
                         LAMBDA r : r # << >>)
    IN  [ i \in 1..Len(got) |-> got[i][1] ]

\* every sequence of records one scan of the tree can append
ScanOutcomes(root, tree) ==
    { ScanRecords(root, items) : items \in Rglob(root, tree, Dir(<< >>)) }

\* ------------------------------------------------------------------------
\* Scoring of one term against one record: the /api/search handler
\* ------------------------------------------------------------------------

\* path_lower.split(os.sep)
PathParts(f) == SplitOn(Lower(f.path), "/")

\* "Exact match on parent folder name + readme": 300 points
ParentReadmeSignal(term, f) ==
    LET parts == PathParts(f)
        fl    == Lower(f.name)
    IN  IF /\ Len(parts) >= 2
           /\ parts[Len(parts) - 1] = term
           /\ (fl = << "r","e","a","d","m","e",".","m","d" >>
               \/ fl = << "r","e","a","d","m","e" >>)
        THEN 300 ELSE 0

\* "Exact filename match (without extension)": 200, else partial: 100
FilenameSignal(term, f) ==
    LET fl == Lower(f.name)
    IN  IF SplitextRoot(fl) = term THEN 200
        ELSE IF IsSubstring(term, fl) THEN 100
        ELSE 0

\* "Exact folder match": 150, else (for ... else) "Partial folder match": 50
FolderSignal(term, f) ==
    LET parts == PathParts(f)
    IN  IF \E i \in 1..Len(parts) : parts[i] = term THEN 150
        ELSE IF \E i \in 1..Len(parts) : IsSubstring(term, parts[i]) THEN 50
        ELSE 0

\* "Content match: 5 points per occurrence"
ContentSignal(term, f) == Count(Lower(f.content), term) * 5

\* "Title match: 120 points"
TitleSignal(term, f) == IF IsSubstring(term, Lower(f.title)) THEN 120 ELSE 0

\* "Headers match: 30 points", for every header that matches
HeaderSignal(term, f) ==
    30 * Cardinality({ i \in 1..Len(f.headers) : IsSubstring(term, Lower(f.headers[i])) })

\* "Keywords match: 40 points", for every keyword that matches; the keywords
\* of a record are list(set(...)): distinct strings in no particular order
KeywordSignal(term, f) ==
    40 * Cardinality({ k \in f.keywords : IsSubstring(term, Lower(k)) })

\* the body of the loop "for term in query_terms"
TermScore(term, f) ==
    ParentReadmeSignal(term, f) + FilenameSignal(term, f) + FolderSignal(term, f)
    + ContentSignal(term, f) + TitleSignal(term, f) + HeaderSignal(term, f)
    + KeywordSignal(term, f)

RECURSIVE TotalScore(_, _)
\* total_score of a record over the query terms
TotalScore(terms, f) ==
    IF terms = << >> THEN 0
    ELSE TermScore(Head(terms), f) + TotalScore(Tail(terms), f)

\* ------------------------------------------------------------------------
\* Scoring of one term against one record: PortfolioIndexer.calculate_priority
\* ------------------------------------------------------------------------

\* "Check filename"
PriorityFilename(term, f) ==
    IF IsSubstring(Lower(term), Lower(f.name)) THEN 100 ELSE 0

\* "Check folder path"
PriorityFolder(term, f) ==
    LET parts == PathParts(f)
    IN  IF \E i \in 1..Len(parts) : IsSubstring(Lower(term), parts[i]) THEN 50 ELSE 0

\* "Check content"
PriorityContent(term, f) == Count(Lower(f.content), Lower(term)) * 10

calculate_priority(term, f) ==
    PriorityFilename(term, f) + PriorityFolder(term, f) + PriorityContent(term, f)

RECURSIVE TotalPriority(_, _)
TotalPriority(terms, f) ==
    IF terms = << >> THEN 0
    ELSE calculate_priority(Head(terms), f) + TotalPriority(Tail(terms), f)

\* ------------------------------------------------------------------------
\* Results: filter, sort, truncate
\* ------------------------------------------------------------------------

\* {**file_info, "score": total_score}
Scored(f, n) == [rec |-> f, score |-> n]

\* Keep with ">= 0" for "> 0"
KeepNonNegative(n) == n >= 0

\* "if total_score > 0: results.append(...)"
Keep(n) == n > 0

\* Before for a sort that reverses the elements of equal score (an ascending
\* sort followed by reverse())
BeforeReversingTies(rs, i, j) ==
    rs[i].score > rs[j].score \/ (rs[i].score = rs[j].score /\ i > j)

\* whether element i of rs goes before element j when list.sort(key=score,
\* reverse=True) sorts rs: a greater score first, and elements of equal
\* score in the order they have in rs (the sort is stable)
Before(rs, i, j) ==
    rs[i].score > rs[j].score \/ (rs[i].score = rs[j].score /\ i < j)

\* results.sort(key=lambda x: x["score"], reverse=True)
SortByScore(rs) ==
    LET pos == [ i \in 1..Len(rs) |->
                   1 + Cardinality({ j \in 1..Len(rs) : Before(rs, j, i) }) ] \o << >>
    IN  [ k \in 1..Len(rs) |-> rs[CHOOSE i \in 1..Len(rs) : pos[i] = k] ]

\* QueryTerms with split(' ') for split(): empty pieces are kept
QueryTermsSplitSpace(q) == SplitOn(Lower(q), " ")

\* query.lower().split()
QueryTerms(q) == SplitWs(Lower(q))

\* the loop over index_data["files"] of the /api/search handler
ApiCollect(terms, files) ==
    SelectSeq([ i \in 1..Len(files) |-> Scored(files[i], TotalScore(terms, files[i])) ],
              LAMBDA r : Keep(r.score))

\* results[:50]
Limit(rs) == Upto(rs, MaxResults)

\* the /api/search handler for request.args['q'] = q
ApiSearchResults(q, files) ==
    LET query == Strip(q)
    IN  IF query = << >> THEN << >>
        ELSE Limit(SortByScore(ApiCollect(QueryTerms(query), files)))

\* the loop over self.index["files"] of PortfolioIndexer.search
IndexerCollect(terms, files) ==
    SelectSeq([ i \in 1..Len(files) |-> Scored(files[i], TotalPriority(terms, files[i])) ],
              LAMBDA r : Keep(r.score))

\* PortfolioIndexer.search(q)
IndexerSearchResults(q, files) ==
    SortByScore(IndexerCollect(QueryTerms(q), files))

\* ------------------------------------------------------------------------
\* Directory trees, index roots and queries the model explores
\* ------------------------------------------------------------------------

N_SSH == << "S", "S", "H" >>

N_readme_md == << "r", "e", "a", "d", "m", "e", ".", "m", "d" >>

N_footprinting_md == << "f", "o", "o", "t", "p", "r", "i", "n", "t", "i", "n", "g", ".", "m", "d" >>

N_port_scan_md == << "p", "o", "r", "t", "-", "s", "c", "a", "n", ".", "m", "d" >>

N_git == << ".", "g", "i", "t" >>

N_config == << "c", "o", "n", "f", "i", "g" >>

N_sub == << "s", "u", "b" >>

N_HEAD == << "H", "E", "A", "D" >>

N_venv == << "v", "e", "n", "v" >>

N_lib_py == << "l", "i", "b", ".", "p", "y" >>

N_a == << "a" >>

N_b_png == << "b", ".", "P", "N", "G" >>

N_notes_txt == << "p", "o", "r", "t", "-", "s", "c", "a", "n", "-", "n", "o", "t", "e", "s", ".", "t", "x", "t" >>

N_README == << "R", "E", "A", "D", "M", "E" >>

N_srv == << "s", "r", "v" >>

N_portfolio == << "p", "o", "r", "t", "f", "o", "l", "i", "o" >>

N_cache == << ".", "c", "a", "c", "h", "e" >>

ReadmeEmpty == <<  >>

ReadmeTitled == << "#", " ", "S", "S", "H", "\n", "s", "s", "h", " ", "b", "a", "s", "i", "c", "s" >>

FootLight == << "#", " ", "F", "o", "o", "t", "p", "r", "i", "n", "t", "i", "n", "g", "\n", "s", "c", "a", "n", " ", "w", "i", "t", "h", " ", "n", "m", "a", "p" >>

FootHeavy == << "#", " ", "s", "s", "h", "\n", "#", " ", "s", "s", "h", "\n", "#", " ", "s", "s", "h", "\n", BackTick, "s", "s", "h", BackTick, " ", BackTick, "s", "s", "h", "d", BackTick, "\n" >>

PortScanText == << "#", "#", " ", "P", "o", "r", "t", "s", "\n", "#", " ", "P", "o", "r", "t", " ", "s", "c", "a", "n", "\n", "r", "u", "n", " ", BackTick, "n", "m", "a", "p", " ", "-", "p", " ", "2", "2", BackTick, " ", "o", "r", " ", BackTick, BackTick >>

NotesText == << "S", "S", "H", " ", "s", "s", "h" >>

\* "ssh notes in md"
ReadmeRootText == << "s", "s", "h", " ", "n", "o", "t", "e", "s", " ", "i", "n", " ", "m", "d" >>

\* a document longer than the excerpt: "ssh notes " over and over
FootLong == Repeat(<< "s","s","h"," ","n","o","t","e","s"," " >>, LongReps)

\* A portfolio checkout: documents, a repository directory, a nested one, a
\* virtual environment, an image. fp and rm are the texts of the two SSH
\* documents.
Docs(fp, rm) ==
    { Dir(<< N_SSH >>),
      File(<< N_SSH, N_readme_md >>, rm),
      File(<< N_SSH, N_footprinting_md >>, fp),
      File(<< N_port_scan_md >>, PortScanText),
      File(<< N_README >>, ReadmeRootText),
      Dir(<< N_git >>),
      File(<< N_git, N_config >>, NotesText),
      Dir(<< N_sub >>),
      Dir(<< N_sub, N_git >>),
      File(<< N_sub, N_git, N_HEAD >>, NotesText),
      Dir(<< N_venv >>),
      File(<< N_venv, N_lib_py >>, NotesText),
      Dir(<< N_a >>),
      File(<< N_a, N_b_png >>, NotesText),
      File(<< N_a, N_notes_txt >>, NotesText) }

\* the same checkout with one node made unreadable (a file) or unlistable (a
\* directory)
Deny(tree, rel) == { IF n.rel = rel THEN Unreadable(n) ELSE n : n \in tree }

N_d == << "d" >>

N_f_md == << "f", ".", "m", "d" >>

\* the directory d/d/.../d, k levels down
Deep(k) == [ i \in 1..k |-> N_d ]

\* the directory of the i-th document of Bulk: c, d, e, c/d, d/d, e/d, c/d/d, ...
BulkDir(i) == << << << "c" >>, << "d" >>, << "e" >> >>[(i % 3) + 1] >> \o Deep(i \div 3)

\* BulkFiles empty documents, each named f.md and alone in its directory; the
\* directories make three chains below the root
Bulk ==
    { Dir(BulkDir(i)) : i \in 0..(BulkFiles - 1) }
    \cup { File(BulkDir(i) \o << N_f_md >>, << >>) : i \in 0..(BulkFiles - 1) }

PlainRoot  == << Sep, N_srv, N_portfolio >>

HiddenRoot == << Sep, N_cache, N_portfolio >>

VenvRoot   == << Sep, N_venv, N_portfolio >>

Scenarios ==
    { [root |-> PlainRoot, tree |-> Docs(fp, rm)] :
          fp \in {FootLight, FootHeavy, FootLong}, rm \in {ReadmeEmpty, ReadmeTitled} }
    \cup { [root |-> r, tree |-> Docs(FootLight, ReadmeTitled)] : r \in {HiddenRoot, VenvRoot} }
    \cup { [root |-> PlainRoot, tree |-> Deny(Docs(FootLight, ReadmeTitled), rel)] :
              rel \in { << N_a, N_notes_txt >>, << N_SSH >> } }
    \cup { [root |-> PlainRoot, tree |-> Bulk] }

Q_ssh == << "s", "s", "h" >>

Q_SSH_Readme == << " ", "S", "S", "H", " ", "R", "e", "a", "d", "m", "e" >>

Q_empty == <<  >>

Q_blank == << " ", "\t", " " >>

Q_port_scan == << "p", "o", "r", "t", "-", "s", "c", "a", "n" >>

Q_port == << "P", "o", "r", "t" >>

Q_md == << "m", "d" >>

Queries == { Q_ssh, Q_SSH_Readme, Q_empty, Q_blank, Q_port_scan, Q_port, Q_md }

\* ------------------------------------------------------------------------
\* State
\* ------------------------------------------------------------------------

VARIABLES
    root_path,    \* PortfolioIndexer.root_path, as path parts
    disk,         \* the directory tree below root_path
    scan,         \* the eligible files of disk in the order in which a scan
                  \* from root_path comes upon them, as the order in which the
                  \* operating system lists each directory has it
    index,        \* PortfolioIndexer.index
    builds,       \* number of build_index calls made on the indexer
    index_json,   \* the file index.json: [state, doc]; state is "absent",
                  \* "partial" (opened for writing, not yet written out and
                  \* closed) or "whole"
    index_data,   \* the server's global index_data
    load_error,   \* the last load_index call raised JSONDecodeError
    reply         \* the search call being answered: [by, query, results]

vars == << root_path, disk, scan, index, builds, index_json, index_data, load_error, reply >>

\* the empty dict {}
EmptyTree == [name |-> << >>, path |-> << >>, type |-> "none", children |-> << >>]

\* {"files": [], "tree": {}, "search_index": []}
EmptyIndex == [files |-> << >>, tree |-> EmptyTree, search_index |-> << >>]

NoReply == [by |-> "none", query |-> << >>, results |-> << >>]

Init ==
    /\ \E sc \in Scenarios :
           /\ root_path = sc.root
           /\ disk = sc.tree
           /\ scan \in Rglob(sc.root, sc.tree, Dir(<< >>))
    /\ index = EmptyIndex
    /\ builds = 0
    /\ index_json = [state |-> "absent", doc |-> EmptyIndex]
    /\ index_data = EmptyIndex
    /\ load_error = FALSE
    /\ reply = NoReply

\* no search call is being answered
Idle == reply.by = "none"

\* the indexer is inside save_index: it has opened index.json for writing and
\* has not yet written the document out and closed the file
Saving == index_json.state = "partial"

\* PortfolioIndexer.build_index
BuildIndex ==
    /\ Idle
    /\ ~Saving
    /\ builds < MaxBuilds
    /\ index' = [index EXCEPT
                   !.files = index.files \o ScanRecords(root_path, scan),
                   !.tree  = build_tree_structure(root_path, disk, Dir(<< >>))]
    /\ builds' = builds + 1
    /\ UNCHANGED << root_path, disk, scan, index_json, index_data, load_error, reply >>

\* PortfolioIndexer.save_index, first step: open(output_file, 'w') creates
\* the file or empties it
SaveOpen ==
    /\ Idle
    /\ ~Saving
    /\ index_json' = [state |-> "partial", doc |-> EmptyIndex]
    /\ UNCHANGED << root_path, disk, scan, index, builds, index_data, load_error, reply >>

\* PortfolioIndexer.save_index, second step: json.dump has written the whole
\* document and the file is closed
SaveDump ==
    /\ Idle
    /\ Saving
    /\ index_json' = [state |-> "whole", doc |-> index]
    /\ UNCHANGED << root_path, disk, scan, index, builds, index_data, load_error, reply >>

\* server.load_index. The server is another process than the indexer, so the
\* call can fall between the two steps of save_index: json.load then finds a
\* text that is not a JSON document and raises, and index_data is not
\* assigned.
LoadIndex ==
    /\ Idle
    /\ CASE index_json.state = "absent" ->
               index_data' = EmptyIndex /\ load_error' = FALSE
         [] index_json.state = "whole" ->
               index_data' = index_json.doc /\ load_error' = FALSE
         [] OTHER ->
               index_data' = index_data /\ load_error' = TRUE
    /\ UNCHANGED << root_path, disk, scan, index, builds, index_json, reply >>

\* GET /api/search?q=...
ApiSearch ==
    \E q \in Queries :
        /\ Idle
        /\ reply' = [by |-> "api", query |-> q,
                     results |-> ApiSearchResults(q, index_data.files)]
        /\ UNCHANGED << root_path, disk, scan, index, builds, index_json,
                        index_data, load_error >>

\* PortfolioIndexer.search(q)
IndexerSearch ==
    \E q \in Queries :
        /\ Idle
        /\ ~Saving
        /\ reply' = [by |-> "indexer", query |-> q,
                     results |-> IndexerSearchResults(q, index.files)]
        /\ UNCHANGED << root_path, disk, scan, index, builds, index_json,
                        index_data, load_error >>

\* the search call returns its results to the caller
Return ==
    /\ ~Idle
    /\ reply' = NoReply
    /\ UNCHANGED << root_path, disk, scan, index, builds, index_json,
                    index_data, load_error >>

Next ==
    BuildIndex \/ SaveOpen \/ SaveDump \/ LoadIndex \/ ApiSearch \/ IndexerSearch \/ Return

Spec == Init /\ [][Next]_vars

\* ------------------------------------------------------------------------
\* Vocabulary of the properties
\* ------------------------------------------------------------------------

Indices(s) == 1..Len(s)

\* the paths of the records of a files sequence
PathSet(files) == { files[i].path : i \in Indices(files) }

RECURSIVE TreeNodes(_)
\* every node of a tree, as [path, type]
TreeNodes(n) ==
    { [path |-> n.path, type |-> n.type] }
    \cup UNION { TreeNodes(n.children[i]) : i \in Indices(n.children) }

\* the paths of the file-kind nodes of a tree
TreeFilePaths(t) == { n.path : n \in { m \in TreeNodes(t) : m.type = "file" } }

\* the segments of a stored path
Segments(path) == SplitOn(path, "/")

HasGitSegment(path) ==
    LET segs == Segments(path)
    IN  \E i \in Indices(segs) : segs[i] = N_git

\* s is a prefix of t
IsPrefix(s, t) == Len(s) <= Len(t) /\ SubSeq(t, 1, Len(s)) = s

\* the files a reply was computed from, its query terms, and the total score
\* the answering operation gives a record
Searched == IF reply.by = "api" THEN index_data.files ELSE index.files

ReplyTerms ==
    IF reply.by = "api" THEN QueryTerms(Strip(reply.query)) ELSE QueryTerms(reply.query)

ReplyScore(f) ==
    IF reply.by = "api" THEN TotalScore(ReplyTerms, f) ELSE TotalPriority(ReplyTerms, f)

\* the records of the results that carry score n, in result order
ResultsWith(n) ==
    LET sel == SelectSeq(reply.results, LAMBDA r : r.score = n)
    IN  [i \in Indices(sel) |-> sel[i].rec]

\* the records of the searched files whose total score is n, in index order
FilesWith(n) == SelectSeq(Searched, LAMBDA f : ReplyScore(f) = n)

P_SSH_readme == Join(<< N_SSH, N_readme_md >>, Sep)

P_SSH_footprinting == Join(<< N_SSH, N_footprinting_md >>, Sep)

\* what a scan of the tree on disk can yield for an indexer rooted at root
ScanAt(root) == ScanOutcomes(root, disk)

\* ------------------------------------------------------------------------
\* Properties
\* ------------------------------------------------------------------------

\* C1: for the query "ssh" answered by /api/search, the record SSH/readme.md
\* scores at least 450 and the record SSH/footprinting.md of the same index
\* scores strictly less than it, whatever the texts of the two documents.
C1_ReadmeOutranksSibling ==
    (reply.by = "api" /\ reply.query = Q_ssh) =>
        \A i, j \in Indices(reply.results) :
            (/\ reply.results[i].rec.path = P_SSH_readme
             /\ reply.results[j].rec.path = P_SSH_footprinting)
            => /\ reply.results[i].score >= 450
               /\ reply.results[j].score < reply.results[i].score

\* C2: the results of a search are in non-increasing order of score, and the
\* results of one score are the first records of that score of the searched
\* files, in the order of the files sequence.
C2_StableDescendingOrder ==
    ~Idle =>
        /\ \A i, j \in Indices(reply.results) :
               i < j => reply.results[i].score >= reply.results[j].score
        /\ \A n \in { reply.results[i].score : i \in Indices(reply.results) } :
               IsPrefix(ResultsWith(n), FilesWith(n))

\* C2 witness: /api/search returned two different records of equal score and
\* a record of another score.
C2_Witness ==
    /\ reply.by = "api"
    /\ \E i, j, k \in Indices(reply.results) :
           /\ i < j
           /\ reply.results[i].score = reply.results[j].score
           /\ reply.results[i].rec # reply.results[j].rec
           /\ reply.results[k].score # reply.results[i].score

\* C3: a search returns at most 50 results, in PortfolioIndexer.search as in
\* /api/search.
C3_AtMostFiftyResults == ~Idle => Len(reply.results) <= MaxResults

\* C4: after any number of build_index calls the files sequence holds exactly
\* the records of the most recent scan, each path once.
C4_RebuildReplaces ==
    builds >= 1 =>
        /\ index.files = ScanRecords(root_path, scan)
        /\ \A i, j \in Indices(index.files) :
               i # j => index.files[i].path # index.files[j].path

\* C5: after build_index the paths of the file nodes of the tree are the paths
\* of the records of files.
C5_TreeFilesMatchRecords ==
    builds >= 1 => TreeFilePaths(index.tree) = PathSet(index.files)

\* the filename signal the answering operation gives a record for a term
ReplyFilenameSignal(term, f) ==
    IF reply.by = "api" THEN FilenameSignal(term, f) ELSE PriorityFilename(term, f)

\* C6: for every term of a query and every record searched, in /api/search as
\* in PortfolioIndexer.search, the filename signal is 200 exactly when the
\* lower-cased filename without its extension equals the term, 100 exactly
\* when it does not and the term is a substring of the lower-cased filename,
\* and 0 otherwise; it is never 300.
C6_FilenameSignalExclusive ==
    ~Idle =>
        \A i \in Indices(Searched), k \in Indices(ReplyTerms) :
            LET f     == Searched[i]
                term  == Lower(ReplyTerms[k])
                sig   == ReplyFilenameSignal(ReplyTerms[k], f)
                exact == SplitextRoot(Lower(f.name)) = term
                part  == IsSubstring(term, Lower(f.name))
            IN  /\ sig \in {0, 100, 200}
                /\ sig = 200 <=> exact
                /\ sig = 100 <=> (~exact /\ part)

\* C7: every result of a search has a score above 0, and no record whose total
\* score is 0 is among the results.
C7_OnlyPositiveScores ==
    ~Idle =>
        /\ \A i \in Indices(reply.results) : reply.results[i].score > 0
        /\ \A i \in Indices(Searched) :
               ReplyScore(Searched[i]) = 0 =>
                   \A j \in Indices(reply.results) : reply.results[j].rec # Searched[i]

\* C7 witness: a search with a query that has terms returned some records and
\* left out a record of score 0.
C7_Witness ==
    /\ ~Idle
    /\ ReplyTerms # << >>
    /\ reply.results # << >>
    /\ \E i \in Indices(Searched) : ReplyScore(Searched[i]) = 0

\* C8: no record of files and no node of the tree, in the indexer or loaded by
\* the server, has a path with a segment named .git.
C8_NoGitAnywhere ==
    /\ \A p \in PathSet(index.files) \cup PathSet(index_data.files) : ~HasGitSegment(p)
    /\ \A n \in TreeNodes(index.tree) \cup TreeNodes(index_data.tree) : ~HasGitSegment(n.path)

\* C8 witness: an index was built from a directory that holds a .git directory
\* at the top and another one further down, and it has records and tree nodes.
C8_Witness ==
    /\ builds >= 1
    /\ \E n \in disk : Len(n.rel) = 2 /\ n.rel[1] = N_git
    /\ \E n \in disk : Len(n.rel) = 3 /\ n.rel[2] = N_git
    /\ index.files # << >>
    /\ index.tree.children # << >>

\* C9: a query that is empty or only whitespace is answered with the empty
\* sequence, by PortfolioIndexer.search and by /api/search.
C9_BlankQueryEmptyResult ==
    (~Idle /\ Strip(reply.query) = << >>) => reply.results = << >>

\* C9 witness: a whitespace-only query was answered over an index that holds
\* records.
C9_Witness ==
    /\ ~Idle
    /\ reply.query = Q_blank
    /\ Searched # << >>

\* C10: the paths indexed do not depend on where the root lies: the files of
\* an indexer are those a scan of the same tree yields under any other root.
C10_RootIndependent ==
    builds >= 1 =>
        \A r \in {PlainRoot, HiddenRoot, VenvRoot} :
            \A scanned \in ScanAt(r) : PathSet(index.files) = PathSet(scanned)

====
